---- MODULE Spec2Model ----
(***************************************************************************)
(* Session-scoped conversational orchestration of the price-transfer       *)
(* support assistant: the orchestrator's per-turn mode detection and       *)
(* delegation (docs/ARCHITECTURE.md, OrchestratorAgent), the specialist    *)
(* agent's tool loop (Mode2Agent), the event stream of a turn and the      *)
(* client's read loop over it (frontend/src/App.tsx, handleSend).          *)
(*                                                                         *)
(* A turn is one asyncio task running OrchestratorAgent.handle.  Python    *)
(* runs a task without interruption between two awaits, so every action    *)
(* below is the code between two suspension points of that task.           *)
(***************************************************************************)
EXTENDS Naturals, Integers, Sequences, FiniteSets, TLC

VARIABLES store, turn, handled, client, form

vars == <<store, turn, handled, client, form>>

(***************************************************************************)
(* Bounds of the model.                                                    *)
(***************************************************************************)
MaxTurns == 2

MaxToolCalls == 2

MaxRequests == 3

MaxEvents == 2

MaxViewEvents == 3

TurnIds == 1..MaxTurns

SessionIds == {"s1"}

(***************************************************************************)
(* Session (docs/ARCHITECTURE.md, class Session).  mode is None until the  *)
(* first classification; "unset" stands for None.                          *)
(***************************************************************************)
NoSession == [exists |-> FALSE]

Attributes == {"manufacturing"}

Modes == {"mode1", "mode2"}

NewSession(attrs) ==
    [exists |-> TRUE, mode |-> "unset", history |-> <<>>,
     generated_files |-> <<>>, user_attributes |-> attrs]

(***************************************************************************)
(* User utterances are sequences of words; `kw in user_input` is the       *)
(* containment of one keyword among the words.  The keywords are those of  *)
(* keywords_mode2 (romanised: neage = price increase, kakaku_tenka = price *)
(* pass-through, cost_zou = cost increase, kaitataki = price beating,      *)
(* shitaukehou = subcontract act, genzairyo_koutou = material price surge, *)
(* jinkenhi_up = labour cost rise, akaji_juchu = loss-making order,        *)
(* torihiki_jouken = terms of trade, mitsumori = quotation).               *)
(***************************************************************************)
keywords_mode2 ==
    {"neage", "kakaku_tenka", "cost_zou", "kaitataki", "shitaukehou",
     "genzairyo_koutou", "jinkenhi_up", "akaji_juchu", "torihiki_jouken",
     "mitsumori"}

Texts ==
    {<<"shikinguri">>, <<"neage", "soudan">>, <<"soudan", "mitsumori">>}

Contains(user_input, kw) == \E i \in 1..Len(user_input) : user_input[i] = kw

HasKeyword(user_input) == \E kw \in keywords_mode2 : Contains(user_input, kw)

(***************************************************************************)
(* The confidence the classification call returns, in tenths: float(result)*)
(* is compared with 0.7.                                                   *)
(***************************************************************************)
ConfidenceThreshold == 7

Confidences == {0, 7, 8, 10}

ModeOfConfidenceAtLeast(confidence) ==
    IF confidence >= ConfidenceThreshold THEN "mode2" ELSE "mode1"

ModeOfConfidence(confidence) ==
    IF confidence > ConfidenceThreshold THEN "mode2" ELSE "mode1"

(***************************************************************************)
(* Tools of Mode2Agent._execute_tool.  A tool call of the model names a    *)
(* tool; a name outside RegisteredTools takes the else branch.             *)
(***************************************************************************)
RegisteredTools ==
    {"web_search", "search_knowledge_base", "calculate_cost_impact",
     "generate_chart", "generate_document", "simulate_negotiation"}

FileTools == {"generate_chart", "generate_document"}

CalledTools == {"web_search", "generate_chart", "unknown_tool"}

RECURSIVE SeqsUpTo(_, _)
SeqsUpTo(S, n) ==
    IF n = 0 THEN {<<>>}
    ELSE LET shorter == SeqsUpTo(S, n - 1)
         IN shorter \cup {Append(s, x) : s \in {q \in shorter : Len(q) = n - 1}, x \in S}

ToolCallSeqs == SeqsUpTo(CalledTools, MaxToolCalls)

(***************************************************************************)
(* What a task keeps once it has ended: its locals are gone.               *)
(***************************************************************************)
Ended(task, pc, outcome) ==
    [task EXCEPT !.pc = pc, !.outcome = outcome, !.user_input = <<>>,
                 !.tool_calls = <<>>, !.next_call = 1]

(***************************************************************************)
(* A turn: the task's position (pc), what it was given and what it has     *)
(* computed, and the events it has emitted.                                *)
(***************************************************************************)
IdleTurn ==
    [pc |-> "idle", sid |-> "s1", user_input |-> <<>>, mode |-> "unset",
     tool_calls |-> <<>>, next_call |-> 1, classify_calls |-> 0,
     outcome |-> "none", wrote_mode |-> FALSE, stream |-> <<>>]

Running == {"CLASSIFYING", "CLASSIFY_WAIT", "CONSENT", "ROUTED", "GENERATING",
            "TOOL_PENDING", "FINALIZING"}

Terminal == {"DONE", "ERROR"}

InFlight(t) == turn[t].pc \in Running

Busy(sid) == \E u \in TurnIds : InFlight(u) /\ turn[u].sid = sid

TerminalEvents == {"done", "error"}

EmitFirst(t, events) == [turn[t] EXCEPT !.stream = events \o @]

Emit(t, events) == [turn[t] EXCEPT !.stream = @ \o events]

(***************************************************************************)
(* The client (frontend/src/App.tsx, function App).  client holds the      *)
(* component's state (useState), its refs (useRef), the calls of           *)
(* handleSend that have been made (each with its local variables), the     *)
(* timers set by the submit handlers with the values their closure         *)
(* captured, and the setMessages updaters React has queued and not yet     *)
(* run.  null is "none" for a string and 0 for a controller; the index -1  *)
(* of contentMessageIndex is 0, list positions counting from 1.            *)
(***************************************************************************)
RequestIds == 1..MaxRequests

UnusedCall ==
    [pc |-> "unused", session_id |-> "none", hasAddedAssistantMessage |-> FALSE,
     formMessageAdded |-> FALSE, contentMessageIndex |-> 0, received |-> 0,
     terminal |-> FALSE]

InitialClient ==
    [sessionId |-> "none", isLoading |-> FALSE, abortControllerRef |-> 0,
     currentResponseRef |-> "", currentImagesRef |-> <<>>,
     currentPdfsRef |-> <<>>, currentMode |-> "none", currentStep |-> "none",
     currentStatus |-> "", messages |-> <<>>, pending |-> <<>>,
     calls |-> [r \in RequestIds |-> UnusedCall], timers |-> <<>>,
     showUserInfoModal |-> TRUE]

(***************************************************************************)
(* InlineCostForm: formData, one string per field (empty when the user     *)
(* has typed nothing), and what the last submit handed on.                 *)
(***************************************************************************)
(***************************************************************************)
(* InlineCostForm: ten number inputs, a previous and a current one for     *)
(* each of the five items of COST_FIELDS.  formData holds the text of each *)
(* input; costDetails are the lines handleInlineCostFormSubmit puts into   *)
(* the request text.                                                       *)
(***************************************************************************)
COST_FIELDS == {"sales", "material", "labor", "energy", "overhead"}

FormKeys == COST_FIELDS \X {"previous", "current"}

InputTexts == {"", "0", "5"}

InitialForm ==
    [formData |-> [k \in FormKeys |-> ""], error |-> FALSE,
     submitted |-> FALSE, costDetails |-> {}]

Init ==
    /\ store = [sid \in SessionIds |-> NoSession]
    /\ turn = [t \in TurnIds |-> IdleTurn]
    /\ handled = [t \in TurnIds |-> <<>>]
    /\ client = InitialClient
    /\ form = InitialForm

(***************************************************************************)
(* create_session: POST /api/session.                                      *)
(***************************************************************************)
CreateSession(sid, attrs) ==
    /\ ~store[sid].exists
    /\ store' = [store EXCEPT ![sid] = NewSession(attrs)]
    /\ UNCHANGED <<turn, handled, client, form>>

(***************************************************************************)
(* submit_turn: POST /api/chat starts OrchestratorAgent.handle as a task.  *)
(* handle takes no lock and makes no check for a turn already running on   *)
(* the session.                                                            *)
(***************************************************************************)
Started(sid, text) ==
    [IdleTurn EXCEPT !.pc = "CLASSIFYING", !.sid = sid, !.user_input = text]

(***************************************************************************)
(* A turn that has ended and whose response the client has read to the end *)
(* (or given up by aborting) leaves nothing behind but what it wrote to    *)
(* the session: its task and its response body are dropped.                *)
(***************************************************************************)
Over(t) ==
    /\ turn[t].pc \in Terminal
    /\ turn[t].outcome = "cancelled" \/ Len(handled[t]) = Len(turn[t].stream)

Dropped == [IdleTurn EXCEPT !.pc = "dropped"]

SubmitTurn(t, sid, text) ==
    /\ turn[t].pc = "idle"
    /\ \A u \in TurnIds : u < t => turn[u].pc # "idle"
    /\ store[sid].exists
    /\ turn' = [u \in TurnIds |->
                  IF u = t THEN Started(sid, text)
                  ELSE IF Over(u) THEN Dropped ELSE turn[u]]
    /\ handled' = [u \in TurnIds |-> IF Over(u) THEN <<>> ELSE handled[u]]
    /\ UNCHANGED <<store, client, form>>

(***************************************************************************)
(* The client sends a message only when it is not loading (handleSend's    *)
(* guard), that is when the response of its previous message is over.      *)
(***************************************************************************)
ClientSend(t, sid, text) ==
    /\ \A u \in TurnIds : u < t => turn[u].pc = "dropped" \/ Over(u)
    /\ SubmitTurn(t, sid, text)

(***************************************************************************)
(* OrchestratorAgent._detect_mode.  The keyword test comes first and       *)
(* returns without awaiting anything; only when no keyword is found is     *)
(* the classification request sent to the model (one suspension point).    *)
(***************************************************************************)
KeywordHitUnlessGeneral(user_input, session) ==
    HasKeyword(user_input) /\ session.mode # "mode1"

KeywordHit(user_input, session) == HasKeyword(user_input)

(***************************************************************************)
(* handle, after _detect_mode returned `mode`: a mode other than the       *)
(* session's asks for the user's consent (a suspension point), the same    *)
(* mode goes straight to the delegation.                                   *)
(***************************************************************************)
AfterDetect(t, mode) ==
    [turn[t] EXCEPT !.mode = mode,
                    !.pc = IF mode # store[turn[t].sid].mode
                           THEN "CONSENT" ELSE "ROUTED"]

DetectMode(t) ==
    /\ turn[t].pc = "CLASSIFYING"
    /\ turn' = [turn EXCEPT ![t] =
                  IF KeywordHit(turn[t].user_input, store[turn[t].sid])
                  THEN AfterDetect(t, "mode2")
                  ELSE [turn[t] EXCEPT !.pc = "CLASSIFY_WAIT",
                                       !.classify_calls = @ + 1]]
    /\ UNCHANGED <<store, handled, client, form>>

ClassifyReturn(t, confidence) ==
    /\ turn[t].pc = "CLASSIFY_WAIT"
    /\ turn' = [turn EXCEPT ![t] = AfterDetect(t, ModeOfConfidence(confidence))]
    /\ UNCHANGED <<store, handled, client, form>>

(***************************************************************************)
(* An exception leaves handle: nothing in handle, _detect_mode, execute or *)
(* _execute_tool catches one, so the task ends there and the session       *)
(* keeps whatever the task had written.  The stream gets its error event.  *)
(***************************************************************************)
Raise(t, events) == Ended(Emit(t, events \o <<"error">>), "ERROR", "failed")

ClassifyFail(t) ==
    /\ turn[t].pc = "CLASSIFY_WAIT"
    /\ turn' = [turn EXCEPT ![t] = Raise(t, <<>>)]
    /\ UNCHANGED <<store, handled, client, form>>

(***************************************************************************)
(* handle, after _get_user_consent: a refusal returns the "current mode    *)
(* continues" response; a consent writes session.mode and goes on.         *)
(***************************************************************************)
ConsentRefusedFallsThrough(t) == [Emit(t, <<"done">>) EXCEPT !.pc = "ROUTED"]

ConsentRefused(t) == Ended(Emit(t, <<"done">>), "DONE", "done")

NoModeUpdateEvents(old, new) == <<>>

ModeUpdateEvents(old, new) == IF old # new THEN <<"mode_update">> ELSE <<>>

Consent(t, consent) ==
    /\ turn[t].pc = "CONSENT"
    /\ IF consent
       THEN /\ store' = [store EXCEPT ![turn[t].sid].mode = turn[t].mode]
            /\ turn' = [turn EXCEPT ![t] =
                          [Emit(t, ModeUpdateEvents(store[turn[t].sid].mode,
                                                    turn[t].mode))
                             EXCEPT !.pc = "ROUTED", !.wrote_mode = TRUE]]
       ELSE /\ turn' = [turn EXCEPT ![t] = ConsentRefused(t)]
            /\ UNCHANGED store
    /\ UNCHANGED <<handled, client, form>>

(***************************************************************************)
(* handle: agent = self.agents[mode]; agent.execute sends the chat request *)
(* to the model and suspends.                                              *)
(***************************************************************************)
Route(t) ==
    /\ turn[t].pc = "ROUTED"
    /\ turn' = [turn EXCEPT ![t] = [Emit(t, <<"status">>) EXCEPT !.pc = "GENERATING"]]
    /\ UNCHANGED <<store, handled, client, form>>

(***************************************************************************)
(* execute, when llm.chat returns: the response carries the assistant text *)
(* and, for the specialist agent, the tool calls of the model.             *)
(***************************************************************************)
ResponsesOf(mode) == IF mode = "mode2" THEN ToolCallSeqs ELSE {<<>>}

ChatReturn(t, calls) ==
    /\ turn[t].pc = "GENERATING"
    /\ calls \in ResponsesOf(turn[t].mode)
    /\ turn' = [turn EXCEPT ![t] =
                  [Emit(t, <<"content">>)
                     EXCEPT !.tool_calls = calls, !.next_call = 1,
                            !.pc = IF calls = <<>> THEN "FINALIZING"
                                   ELSE "TOOL_PENDING"]]
    /\ UNCHANGED <<store, handled, client, form>>

ChatFail(t) ==
    /\ turn[t].pc = "GENERATING"
    /\ turn' = [turn EXCEPT ![t] = Raise(t, <<>>)]
    /\ UNCHANGED <<store, handled, client, form>>

(***************************************************************************)
(* execute, the loop over response.tool_calls.  One pass awaits            *)
(* _execute_tool (a suspension point) and, when it returns, appends        *)
(* result.file_info to session.generated_files and the tool message to     *)
(* session.history.  After the last call the loop is left for the return   *)
(* statement; the model is not called again.                               *)
(***************************************************************************)
CurrentCallReversed(t) ==
    turn[t].tool_calls[Len(turn[t].tool_calls) - turn[t].next_call + 1]

CurrentCall(t) == turn[t].tool_calls[turn[t].next_call]

FileInfo(t, tool) == [turn |-> t, tool |-> tool, file |-> tool \in FileTools]

Message(t, role) == [turn |-> t, role |-> role]

ArtifactEvents(tool) == IF tool \in FileTools THEN <<"artifact">> ELSE <<>>

AfterToolResult(t, tool) ==
    [Emit(t, <<"tool_use">> \o ArtifactEvents(tool))
       EXCEPT !.next_call = @ + 1,
              !.pc = IF turn[t].next_call = Len(turn[t].tool_calls)
                     THEN "FINALIZING" ELSE "TOOL_PENDING"]

ToolReturn(t) ==
    /\ turn[t].pc = "TOOL_PENDING"
    /\ CurrentCall(t) \in RegisteredTools
    /\ store' = [store EXCEPT
                   ![turn[t].sid].generated_files =
                       Append(@, FileInfo(t, CurrentCall(t))),
                   ![turn[t].sid].history = Append(@, Message(t, "tool"))]
    /\ turn' = [turn EXCEPT ![t] = AfterToolResult(t, CurrentCall(t))]
    /\ UNCHANGED <<handled, client, form>>

(***************************************************************************)
(* A tool body that raises or times out (the search or knowledge-base      *)
(* provider is down, the chart cannot be rendered): _execute_tool has no   *)
(* try, the exception leaves execute and handle.                           *)
(***************************************************************************)
ToolRaise(t) ==
    /\ turn[t].pc = "TOOL_PENDING"
    /\ CurrentCall(t) \in RegisteredTools
    /\ turn' = [turn EXCEPT ![t] = Raise(t, <<"tool_use">>)]
    /\ UNCHANGED <<store, handled, client, form>>

(***************************************************************************)
(* _execute_tool, else branch: raise ValueError(f"Unknown tool: ...").     *)
(***************************************************************************)
ToolUnknown(t) ==
    /\ turn[t].pc = "TOOL_PENDING"
    /\ CurrentCall(t) \notin RegisteredTools
    /\ turn' = [turn EXCEPT ![t] = Raise(t, <<>>)]
    /\ UNCHANGED <<store, handled, client, form>>

(***************************************************************************)
(* execute: return Response(response.message, ...), handed back by handle; *)
(* the response goes to the user and the conversation of the turn is       *)
(* saved in the session (request flow, steps 7 and 8).                     *)
(***************************************************************************)
SavedConversation(t) == <<Message(t, "user"), Message(t, "assistant")>>

Finalize(t) ==
    /\ turn[t].pc = "FINALIZING"
    /\ store' = [store EXCEPT ![turn[t].sid].history = @ \o SavedConversation(t)]
    /\ turn' = [turn EXCEPT ![t] = Ended(Emit(t, <<"done">>), "DONE", "done")]
    /\ UNCHANGED <<handled, client, form>>

(***************************************************************************)
(* Cancellation: handleStop aborts the request, the task is cancelled at   *)
(* the await it is suspended in.  Nothing in handle or execute undoes what *)
(* the task has written to the session so far.                             *)
(***************************************************************************)
Cancellable(t) == InFlight(t) /\ turn[t].pc # "FINALIZING"

Cancel(t) ==
    /\ Cancellable(t)
    /\ turn' = [turn EXCEPT ![t] = Ended(Emit(t, <<"error">>), "ERROR", "cancelled")]
    /\ UNCHANGED <<store, handled, client, form>>

(***************************************************************************)
(* clear_session: POST /api/session/{session_id}/clear.                    *)
(***************************************************************************)
ClearedKeepsMode(session) ==
    [session EXCEPT !.history = <<>>, !.generated_files = <<>>]

Cleared(session) ==
    [session EXCEPT !.mode = "unset", !.history = <<>>, !.generated_files = <<>>]

ClearSession(sid) ==
    /\ store[sid].exists
    /\ store' = [store EXCEPT ![sid] = Cleared(store[sid])]
    /\ UNCHANGED <<turn, handled, client, form>>

(***************************************************************************)
(* get_latest_artifact(session_id, type?): the newest ArtifactRef of the   *)
(* session, of the given type when one is given ("any" stands for the      *)
(* call without a type).  The ArtifactRefs are the entries of              *)
(* generated_files that stand for a file; the locator of one is its        *)
(* position in the list, and the answer for "none" is 0.                   *)
(***************************************************************************)
ArtifactTypes == {"chart", "document"}

Requests == ArtifactTypes \cup {"any"}

TypeOf(tool) ==
    IF tool = "generate_chart" THEN "chart"
    ELSE IF tool = "generate_document" THEN "document" ELSE "none"

Matches(entry, type) == entry.file /\ (type = "any" \/ TypeOf(entry.tool) = type)

Locators(session, type) ==
    {i \in 1..Len(session.generated_files) :
        Matches(session.generated_files[i], type)}

Newest(S) == CHOOSE x \in S : \A y \in S : y <= x

get_earliest_artifact(session, type) ==
    IF Locators(session, type) = {} THEN 0
    ELSE CHOOSE x \in Locators(session, type) :
             \A y \in Locators(session, type) : x <= y

get_latest_artifact(session, type) ==
    IF Locators(session, type) = {} THEN 0 ELSE Newest(Locators(session, type))

(***************************************************************************)
(* The client's read loop (handleSend): reader.read() hands over the       *)
(* events of the response body in the order the server wrote them, and the *)
(* loop over the lines of a chunk handles them one after the other.  An    *)
(* aborted request is read no further.                                     *)
(***************************************************************************)
NextEventNewest(t) == turn[t].stream[Len(turn[t].stream)]

NextEvent(t) == turn[t].stream[Len(handled[t]) + 1]

ClientRead(t) ==
    /\ turn[t].outcome # "cancelled"
    /\ Len(handled[t]) < Len(turn[t].stream)
    /\ handled' = [handled EXCEPT ![t] = Append(@, NextEvent(t))]
    /\ UNCHANGED <<store, turn, client, form>>

TurnStep(t) ==
    \/ DetectMode(t)
    \/ \E confidence \in Confidences : ClassifyReturn(t, confidence)
    \/ ClassifyFail(t)
    \/ \E consent \in BOOLEAN : Consent(t, consent)
    \/ Route(t)
    \/ \E calls \in ToolCallSeqs : ChatReturn(t, calls)
    \/ ChatFail(t)
    \/ ToolReturn(t)
    \/ ToolRaise(t)
    \/ ToolUnknown(t)
    \/ Finalize(t)
    \/ Cancel(t)

(***************************************************************************)
(* Spec: one client, which sends its turns one after the other and reads   *)
(* each response.                                                          *)
(***************************************************************************)
Next ==
    \/ \E sid \in SessionIds, attrs \in Attributes : CreateSession(sid, attrs)
    \/ \E t \in TurnIds, sid \in SessionIds, text \in Texts : ClientSend(t, sid, text)
    \/ \E t \in TurnIds : TurnStep(t)
    \/ \E sid \in SessionIds : ClearSession(sid)
    \/ \E t \in TurnIds : ClientRead(t)

Spec == Init /\ [][Next]_vars

(***************************************************************************)
(* SpecConcurrent: requests for a session arrive at the server at any      *)
(* time, also while a turn of that session is running.                     *)
(***************************************************************************)
NextConcurrent ==
    \/ \E sid \in SessionIds, attrs \in Attributes : CreateSession(sid, attrs)
    \/ \E t \in TurnIds, sid \in SessionIds, text \in Texts : SubmitTurn(t, sid, text)
    \/ \E t \in TurnIds : TurnStep(t)
    \/ \E sid \in SessionIds : ClearSession(sid)

SpecConcurrent == Init /\ [][NextConcurrent]_vars

(***************************************************************************)
(* Messages of the chat (interface Message).  A message that was replaced  *)
(* by `newMessages[i] = {role, content, images, pdfs}` has no              *)
(* inlineFormType.  An assignment past the end of the array leaves holes.  *)
(***************************************************************************)
Msg(role, content) ==
    [role |-> role, content |-> content, inlineFormType |-> FALSE,
     formSubmitted |-> FALSE, images |-> <<>>, pdfs |-> <<>>]

Welcome == Msg("assistant", "welcome")

FormMessage == [Msg("assistant", "form") EXCEPT !.inlineFormType = TRUE]

Hole == Msg("none", "hole")

StreamedMessage(c, content) ==
    [Msg("assistant", content) EXCEPT !.images = c.currentImagesRef,
                                      !.pdfs = c.currentPdfsRef]

IsForm(msgs, i) == i \in 1..Len(msgs) /\ msgs[i].inlineFormType

SetAt(msgs, i, m) ==
    IF i = 0 THEN msgs
    ELSE IF i <= Len(msgs) THEN [msgs EXCEPT ![i] = m]
    ELSE [j \in 1..i |-> IF j <= Len(msgs) THEN msgs[j]
                         ELSE IF j = i THEN m ELSE Hole]

(***************************************************************************)
(* The setMessages updaters of handleSend, handleStop and the form         *)
(* handlers.  React runs a queued updater when it renders, not when        *)
(* setMessages is called: what an updater reads from a ref or from a       *)
(* local variable of handleSend, and what it assigns to                    *)
(* contentMessageIndex, is read and assigned then.                         *)
(***************************************************************************)
Updater(op, call, content) == [op |-> op, call |-> call, content |-> content]

TargetIndex(c, r) ==
    IF c.calls[r].contentMessageIndex > 0 THEN c.calls[r].contentMessageIndex
    ELSE Len(c.messages)

DoneContent(c, u) == IF u.content # "" THEN u.content ELSE c.currentResponseRef

UpdateTarget(c, r, m) ==
    IF IsForm(c.messages, TargetIndex(c, r)) THEN c
    ELSE [c EXCEPT !.messages = SetAt(@, TargetIndex(c, r), m)]

Apply(c, u) ==
    CASE u.op = "appendUser" ->
           [c EXCEPT !.messages = Append(@, Msg("user", "user"))]
      [] u.op = "appendContent" ->
           [c EXCEPT !.messages = Append(@, StreamedMessage(c, c.currentResponseRef)),
                     !.calls[u.call].contentMessageIndex = Len(c.messages) + 1]
      [] u.op = "update" ->
           UpdateTarget(c, u.call, StreamedMessage(c, c.currentResponseRef))
      [] u.op = "appendForm" ->
           [c EXCEPT !.messages = Append(@, FormMessage)]
      [] u.op = "appendDone" ->
           [c EXCEPT !.messages = Append(@, StreamedMessage(c, DoneContent(c, u)))]
      [] u.op = "updateDone" ->
           UpdateTarget(c, u.call, StreamedMessage(c, DoneContent(c, u)))
      [] u.op = "appendError" ->
           [c EXCEPT !.messages = Append(@, Msg("assistant", "error"))]
      [] u.op = "replaceLastError" ->
           [c EXCEPT !.messages = SetAt(@, Len(@), Msg("assistant", "error"))]
      [] u.op = "stopped" ->
           IF Len(c.messages) > 0 /\ c.messages[Len(c.messages)].role = "assistant"
           THEN [c EXCEPT !.messages =
                    SetAt(@, Len(@), StreamedMessage(c, "stopped"))]
           ELSE c
      [] u.op = "formSubmitted" ->
           IF u.call \in 1..Len(c.messages)
           THEN [c EXCEPT !.messages[u.call].formSubmitted = TRUE]
           ELSE c
      [] u.op = "set" ->
           [c EXCEPT !.messages = <<Msg("assistant", u.content)>>]

RECURSIVE ApplyAll(_, _)
ApplyAll(c, updaters) ==
    IF updaters = <<>> THEN c
    ELSE ApplyAll(Apply(c, Head(updaters)), Tail(updaters))

(***************************************************************************)
(* A render runs the queued updaters in order.  After it nothing refers to *)
(* the locals of a call of handleSend that has returned.                   *)
(***************************************************************************)
Forget(c) ==
    [c EXCEPT !.calls = [r \in RequestIds |->
        IF c.calls[r].pc = "returned"
        THEN [UnusedCall EXCEPT !.pc = "returned",
                                !.session_id = c.calls[r].session_id]
        ELSE c.calls[r]]]

Render(c) == Forget(ApplyAll([c EXCEPT !.pending = <<>>], c.pending))

SetMessages(c, u) == [c EXCEPT !.pending = Append(@, u)]

(***************************************************************************)
(* The events of a response body (interface ChatEvent).  data is the       *)
(* payload the branch of handleSend reads: data of content, image and      *)
(* pdf, content of done, mode of mode_update, step of step_update, status  *)
(* of status, tool of tool_use.                                            *)
(***************************************************************************)
Event(type, data, show_modal) ==
    [type |-> type, data |-> data, show_modal |-> show_modal]

TOOL_TO_MODAL_MAP ==
    [calculate_cost_impact |-> "ideal_pricing",
     analyze_cost_impact |-> "cost_comparison"]

LifecycleEvents ==
    {Event("tool_use", "calculate_cost_impact", TRUE), Event("done", "", FALSE),
     Event("error", "", FALSE)}

ClearEvents ==
    {Event("content", "a", FALSE), Event("mode_update", "mode2", FALSE),
     Event("mode_update", "", FALSE), Event("step_update", "step1", FALSE),
     Event("status", "thinking", FALSE), Event("status", "none", FALSE),
     Event("tool_use", "calculate_cost_impact", TRUE),
     Event("tool_use", "analyze_cost_impact", TRUE),
     Event("done", "final", FALSE)}

ViewEvents ==
    {Event("content", d, FALSE) : d \in {"", "a", "ab"}}
      \cup {Event("done", d, FALSE) : d \in {"", "final"}}
      \cup {Event("tool_use", "calculate_cost_impact", b) : b \in BOOLEAN}
      \cup {Event("image", "img", FALSE), Event("pdf", "pdf", FALSE),
            Event("error", "", FALSE)}

(***************************************************************************)
(* handleSend, the branches of the read loop for one event of call r.      *)
(***************************************************************************)
OnContent(c, r, e) ==
    LET c1 == [c EXCEPT !.currentResponseRef = e.data]
    IN IF c.calls[r].formMessageAdded /\ c.calls[r].contentMessageIndex = 0
       THEN SetMessages([c1 EXCEPT !.calls[r].hasAddedAssistantMessage = TRUE],
                        Updater("appendContent", r, ""))
       ELSE IF ~c.calls[r].hasAddedAssistantMessage
       THEN SetMessages([c1 EXCEPT !.calls[r].hasAddedAssistantMessage = TRUE],
                        Updater("appendContent", r, ""))
       ELSE SetMessages(c1, Updater("update", r, ""))

OnFile(c, r, e) ==
    LET c1 == IF e.type = "image"
              THEN [c EXCEPT !.currentImagesRef = Append(@, e.data)]
              ELSE [c EXCEPT !.currentPdfsRef = Append(@, e.data)]
    IN IF c.calls[r].hasAddedAssistantMessage
       THEN SetMessages(c1, Updater("update", r, ""))
       ELSE c1

OnToolUse(c, r, e) ==
    IF e.show_modal /\ e.data \in DOMAIN TOOL_TO_MODAL_MAP
         /\ TOOL_TO_MODAL_MAP[e.data] = "ideal_pricing"
    THEN SetMessages([c EXCEPT !.calls[r].formMessageAdded = TRUE,
                               !.calls[r].hasAddedAssistantMessage = TRUE],
                     Updater("appendForm", r, ""))
    ELSE c

OnDone(c, r, e) ==
    LET c1 == [c EXCEPT !.currentStatus = ""]
    IN IF c.calls[r].formMessageAdded /\ c.currentResponseRef = ""
       THEN c1
       ELSE IF ~c.calls[r].hasAddedAssistantMessage
       THEN SetMessages([c1 EXCEPT !.calls[r].hasAddedAssistantMessage = TRUE],
                        Updater("appendDone", r, e.data))
       ELSE SetMessages(c1, Updater("updateDone", r, e.data))

OnError(c, r, e) ==
    IF ~c.calls[r].hasAddedAssistantMessage
    THEN SetMessages([c EXCEPT !.calls[r].hasAddedAssistantMessage = TRUE],
                     Updater("appendError", r, ""))
    ELSE SetMessages(c, Updater("replaceLastError", r, ""))

OnEvent(c, r, e) ==
    CASE e.type = "content" -> OnContent(c, r, e)
      [] e.type \in {"image", "pdf"} -> OnFile(c, r, e)
      [] e.type = "status" ->
           [c EXCEPT !.currentStatus = IF e.data = "none" THEN "" ELSE e.data]
      [] e.type = "mode_update" ->
           [c EXCEPT !.currentMode = IF e.data = "" THEN "none" ELSE e.data]
      [] e.type = "tool_use" -> OnToolUse(c, r, e)
      [] e.type = "step_update" -> [c EXCEPT !.currentStep = e.data]
      [] e.type = "done" -> OnDone(c, r, e)
      [] e.type = "error" -> OnError(c, r, e)

(***************************************************************************)
(* handleSend up to the fetch.  closure is what the handleSend that runs   *)
(* captured of the component's state: the one of the current render for a  *)
(* click or a key press, the one of the render in which the form was       *)
(* submitted for a send deferred by setTimeout.                            *)
(***************************************************************************)
Closure(c) == [isLoading |-> c.isLoading, sessionId |-> c.sessionId]

BlockedWhileLoadingOnly(closure) == closure.isLoading

Blocked(closure) == closure.sessionId = "none" \/ closure.isLoading

MessageIndexes == 1..(1 + MaxRequests * (MaxEvents + 2))

NextCall(c) ==
    IF \E r \in RequestIds : c.calls[r].pc = "unused"
    THEN CHOOSE r \in RequestIds :
           /\ c.calls[r].pc = "unused"
           /\ \A q \in RequestIds : q < r => c.calls[q].pc # "unused"
    ELSE 0

HandleSend(c, r, skipUserMessage, closure) ==
    IF Blocked(closure) THEN c
    ELSE LET c1 == IF skipUserMessage THEN c
                   ELSE SetMessages(c, Updater("appendUser", r, ""))
         IN [c1 EXCEPT !.isLoading = TRUE,
                       !.currentResponseRef = "",
                       !.currentImagesRef = <<>>,
                       !.currentPdfsRef = <<>>,
                       !.abortControllerRef = r,
                       !.calls[r] = [UnusedCall EXCEPT
                                       !.pc = "fetching",
                                       !.session_id = closure.sessionId]]

(***************************************************************************)
(* The end of a call of handleSend: its finally block.                     *)
(***************************************************************************)
Finally(c, r) ==
    [c EXCEPT !.isLoading = FALSE, !.currentStatus = "",
              !.abortControllerRef = 0, !.calls[r].pc = "returned"]

Open(c, r) == c.calls[r].pc \in {"fetching", "reading"}

(***************************************************************************)
(* handleUserInfoSubmit and initSession: POST /api/session creates the     *)
(* session on the server and answers with its id.                          *)
(***************************************************************************)
InitSession(ok) ==
    /\ client.showUserInfoModal
    /\ client' = Render(SetMessages(
                   [client EXCEPT !.showUserInfoModal = FALSE,
                                  !.sessionId = IF ok THEN "s1" ELSE @],
                   Updater("set", 0, IF ok THEN "welcome" ELSE "init_error")))
    /\ store' = IF ok
                THEN [store EXCEPT !["s1"] = NewSession(CHOOSE a \in Attributes : TRUE)]
                ELSE store
    /\ UNCHANGED <<turn, handled, form>>

(***************************************************************************)
(* The user presses Enter or the send button.                              *)
(***************************************************************************)
UserSend(r) ==
    /\ r = NextCall(client)
    /\ client' = Render(HandleSend(client, r, FALSE, Closure(client)))
    /\ UNCHANGED <<store, turn, handled, form>>

(***************************************************************************)
(* fetch resolves with a response that is ok and has a body, or the        *)
(* request or a read of the body fails (outer catch, then finally).        *)
(***************************************************************************)
FetchOk(r) ==
    /\ client.calls[r].pc = "fetching"
    /\ client' = [client EXCEPT !.calls[r].pc = "reading"]
    /\ UNCHANGED <<store, turn, handled, form>>

Fail(r) ==
    /\ Open(client, r)
    /\ client' = Render(Finally(SetMessages(client, Updater("appendError", r, "")), r))
    /\ UNCHANGED <<store, turn, handled, form>>

(***************************************************************************)
(* One event of the body is handled.  Events that arrive in one chunk are  *)
(* handled in one run of the for loop, with no render between them.        *)
(* received and terminal record what the call has read so far: the number  *)
(* of events, and whether a done or error event was among them.            *)
(***************************************************************************)
Received(c, r, e) ==
    [c EXCEPT !.calls[r].received = @ + 1,
              !.calls[r].terminal = @ \/ e.type \in {"done", "error"}]

ReadEvent(r, e, render) ==
    /\ client.calls[r].pc = "reading"
    /\ LET h == OnEvent(Received(client, r, e), r, e)
       IN client' = IF render THEN Render(h) ELSE h
    /\ UNCHANGED <<store, turn, handled, form>>

RenderStep ==
    /\ client.pending # <<>>
    /\ client' = Render(client)
    /\ UNCHANGED <<store, turn, handled, form>>

(***************************************************************************)
(* reader.read() reports the end of the body: the loop is left and the     *)
(* finally block runs.                                                     *)
(***************************************************************************)
StreamEnd(r) ==
    /\ client.calls[r].pc = "reading"
    /\ client' = Render(Finally(client, r))
    /\ UNCHANGED <<store, turn, handled, form>>

(***************************************************************************)
(* handleStop (the stop button is shown while isLoading).  abort() makes   *)
(* the pending fetch or read of the aborted call reject with AbortError:   *)
(* its catch returns and its finally runs before any other handler.        *)
(***************************************************************************)
HandleStop(c) ==
    IF c.abortControllerRef = 0 THEN c
    ELSE LET a == c.abortControllerRef
             c1 == [c EXCEPT !.abortControllerRef = 0, !.isLoading = FALSE]
             c2 == IF c.currentResponseRef # ""
                   THEN SetMessages(c1, Updater("stopped", a, ""))
                   ELSE c1
         IN IF Open(c, a) THEN Finally(c2, a) ELSE c2

Stop ==
    /\ client.isLoading
    /\ client' = Render(HandleStop(client))
    /\ UNCHANGED <<store, turn, handled, form>>

(***************************************************************************)
(* handleInlineCostFormSubmit for the form at messages[i]: the message is  *)
(* marked submitted and the send is deferred by setTimeout(..., 300).      *)
(***************************************************************************)
FormSubmit(i) ==
    /\ IsForm(client.messages, i)
    /\ ~client.messages[i].formSubmitted
    /\ client' = Render([SetMessages(client, Updater("formSubmitted", i, ""))
                           EXCEPT !.timers = Append(@, Closure(client))])
    /\ UNCHANGED <<store, turn, handled, form>>

TimerFires ==
    /\ client.timers # <<>>
    /\ Blocked(Head(client.timers)) \/ NextCall(client) # 0
    /\ client' = Render(HandleSend([client EXCEPT !.timers = Tail(@)],
                                   NextCall(client), TRUE, Head(client.timers)))
    /\ UNCHANGED <<store, turn, handled, form>>

(***************************************************************************)
(* handleClear: POST /api/session/{id}/clear clears the session on the     *)
(* server, and the handler goes on from the answer.                        *)
(***************************************************************************)
HandleClear(c, ok) ==
    IF c.sessionId = "none" \/ ~ok THEN c
    ELSE SetMessages([c EXCEPT !.currentStep = "none"], Updater("set", 0, "welcome"))

Clear(ok) ==
    /\ client' = Render(HandleClear(client, ok))
    /\ store' = IF ok /\ client.sessionId \in SessionIds
                THEN [store EXCEPT ![client.sessionId] = Cleared(@)]
                ELSE store
    /\ UNCHANGED <<turn, handled, form>>

(***************************************************************************)
(* SpecClient: the requests of the chat client (App.tsx) over the life of   *)
(* one page.  React renders after every handler.                           *)
(***************************************************************************)
NextClient ==
    \/ \E ok \in BOOLEAN : InitSession(ok)
    \/ \E r \in RequestIds : UserSend(r)
    \/ \E r \in RequestIds : FetchOk(r)
    \/ \E r \in RequestIds : Fail(r)
    \/ \E r \in RequestIds, e \in LifecycleEvents :
          client.calls[r].received < MaxEvents /\ ReadEvent(r, e, TRUE)
    \/ \E r \in RequestIds : StreamEnd(r)
    \/ Stop
    \/ \E i \in MessageIndexes : FormSubmit(i)
    \/ TimerFires

SpecClient == Init /\ [][NextClient]_vars

(***************************************************************************)
(* SpecClientLive: SpecClient with the progress the browser guarantees: a  *)
(* timer that was set fires.  Nothing is assumed of the server or of the   *)
(* network: fetch may stay pending, and a body may stay open, for ever.    *)
(***************************************************************************)
SpecClientLive == SpecClient /\ WF_vars(TimerFires)

(***************************************************************************)
(* SpecClear: one request and the clear button, which is enabled at any    *)
(* time.                                                                   *)
(***************************************************************************)
NextClear ==
    \/ InitSession(TRUE)
    \/ UserSend(1)
    \/ FetchOk(1)
    \/ \E e \in ClearEvents :
          client.calls[1].received < MaxEvents /\ ReadEvent(1, e, TRUE)
    \/ StreamEnd(1)
    \/ Stop
    \/ \E ok \in BOOLEAN : Clear(ok)

SpecClear == Init /\ [][NextClear]_vars

(***************************************************************************)
(* SpecView: the messages of one call of handleSend, with React free to    *)
(* render after an event or to leave the queued updaters for later.        *)
(***************************************************************************)
NextView ==
    \/ InitSession(TRUE)
    \/ UserSend(1)
    \/ FetchOk(1)
    \/ \E e \in ViewEvents, render \in BOOLEAN :
          client.calls[1].received < MaxViewEvents /\ ReadEvent(1, e, render)
    \/ RenderStep
    \/ StreamEnd(1)

SpecView == Init /\ [][NextView]_vars

(***************************************************************************)
(* InlineCostForm.handleSubmit and App.handleInlineCostFormSubmit.  Null   *)
(* stands for null; the inputs hold no negative number.                    *)
(***************************************************************************)
Null == 0 - 1

parseFloat(text) == CASE text = "0" -> 0 [] text = "5" -> 5

TruthyText(text) == text # ""

TruthyNumber(n) == n # Null /\ n # 0

hasAnyData(formData) ==
    \E field \in COST_FIELDS :
       TruthyText(formData[<<field, "previous">>])
         \/ TruthyText(formData[<<field, "current">>])

numericData(formData) ==
    [k \in FormKeys |->
       IF TruthyText(formData[k]) THEN parseFloat(formData[k]) ELSE Null]

OrUnentered(n) == IF TruthyNumber(n) THEN ToString(n) ELSE "unentered"

costDetails(data) ==
    {[item |-> field,
      previous |-> OrUnentered(data[<<field, "previous">>]),
      current |-> OrUnentered(data[<<field, "current">>])] :
       field \in {f \in COST_FIELDS :
                    TruthyNumber(data[<<f, "previous">>])
                      \/ TruthyNumber(data[<<f, "current">>])}}

handleChange(key, value) ==
    /\ ~form.submitted
    /\ form' = [form EXCEPT !.formData[key] = value, !.error = FALSE]
    /\ UNCHANGED <<store, turn, handled, client>>

handleSubmit ==
    /\ ~form.submitted
    /\ form' = IF ~hasAnyData(form.formData)
               THEN [form EXCEPT !.error = TRUE]
               ELSE [form EXCEPT !.submitted = TRUE,
                                 !.costDetails = costDetails(numericData(form.formData))]
    /\ UNCHANGED <<store, turn, handled, client>>

(***************************************************************************)
(* SpecForm: one inline cost form, filled in and submitted.                *)
(***************************************************************************)
NextForm ==
    \/ \E key \in FormKeys, value \in InputTexts : handleChange(key, value)
    \/ handleSubmit

SpecForm == Init /\ [][NextForm]_vars

(***************************************************************************)
(* SpecLive: Spec with the progress the event loop and the bounded calls   *)
(* give a task.  A task that is ready runs, and a request to the model or  *)
(* a tool execution returns or raises in bounded time, so each of those    *)
(* steps is taken once it stays enabled.  The answer to the consent        *)
(* question (await self._get_user_consent(mode)) is the user's: handle     *)
(* awaits it with no timeout, and neither it nor the Stop button is        *)
(* something the server can count on.                                      *)
(***************************************************************************)
Completes(t) ==
    \/ DetectMode(t)
    \/ \E confidence \in Confidences : ClassifyReturn(t, confidence)
    \/ ClassifyFail(t)
    \/ Route(t)
    \/ \E calls \in ToolCallSeqs : ChatReturn(t, calls)
    \/ ChatFail(t)
    \/ ToolReturn(t)
    \/ ToolRaise(t)
    \/ ToolUnknown(t)
    \/ Finalize(t)

SpecLive ==
    /\ Init
    /\ [][Next]_vars
    /\ \A t \in TurnIds : WF_vars(Completes(t))
    /\ \A t \in TurnIds : WF_vars(ClientRead(t))

(***************************************************************************)
(* Properties.                                                             *)
(***************************************************************************)
Sessions == {sid \in SessionIds : store[sid].exists}

Live == {t \in TurnIds : turn[t].pc \in Running \cup Terminal}

HistoryOf(t) == store[turn[t].sid].history

FilesOf(t) == store[turn[t].sid].generated_files

WroteHistory(t) == \E i \in 1..Len(HistoryOf(t)) : HistoryOf(t)[i].turn = t

WroteFiles(t) == \E i \in 1..Len(FilesOf(t)) : FilesOf(t)[i].turn = t

Count(events, kinds) == Cardinality({i \in 1..Len(events) : events[i] \in kinds})

(* C1: the history messages of one turn form one block, and the blocks     *)
(* stand in the order the turns were submitted: no message of a turn       *)
(* comes before a message of a turn submitted earlier.                     *)
C1_HistoryBlocksInSubmissionOrder ==
    \A sid \in Sessions :
        \A i, j \in 1..Len(store[sid].history) :
            i < j => store[sid].history[i].turn <= store[sid].history[j].turn

(* C2: the stream of a turn holds one terminal event once the turn has     *)
(* ended, done if it succeeded and error if it failed or was cancelled,    *)
(* and none before; done and error never stand in the same stream.         *)
C2_OneTerminalEvent ==
    \A t \in Live :
        /\ InFlight(t) => Count(turn[t].stream, TerminalEvents) = 0
        /\ turn[t].outcome = "done" =>
               /\ Count(turn[t].stream, {"done"}) = 1
               /\ Count(turn[t].stream, {"error"}) = 0
        /\ turn[t].outcome \in {"failed", "cancelled"} =>
               /\ Count(turn[t].stream, {"error"}) = 1
               /\ Count(turn[t].stream, {"done"}) = 0
        /\ turn[t].pc \in Terminal <=> turn[t].outcome # "none"

C2_Witness ==
    \E t \in TurnIds :
        /\ turn[t].outcome = "failed"
        /\ Count(turn[t].stream, {"tool_use"}) = 2
        /\ Count(turn[t].stream, {"mode_update"}) = 1
        /\ handled[t] = turn[t].stream

(* C3: the client handles the events of a turn in the order the server     *)
(* emitted them, and a done or error event is the last event of the        *)
(* stream and the last event handled.                                      *)
C3_EventsInOrderTerminalLast ==
    \A t \in Live :
        /\ Len(handled[t]) <= Len(turn[t].stream)
        /\ handled[t] = SubSeq(turn[t].stream, 1, Len(handled[t]))
        /\ \A i \in 1..Len(turn[t].stream) :
               turn[t].stream[i] \in TerminalEvents => i = Len(turn[t].stream)
        /\ \A i \in 1..Len(handled[t]) :
               handled[t][i] \in TerminalEvents => i = Len(handled[t])

C3_Witness ==
    \E t \in TurnIds :
        /\ turn[t].outcome = "done"
        /\ handled[t] = turn[t].stream
        /\ Count(handled[t], {"tool_use"}) = 2
        /\ Count(handled[t], {"artifact"}) = 1

(* C4: a turn that failed has left no message in the history of its        *)
(* session: the history is as long as before the attempt.                  *)
C4_FailedTurnLeavesHistory ==
    \A t \in Live : turn[t].outcome = "failed" => ~WroteHistory(t)

(* C5: a cancelled turn has left nothing in its session: no message in     *)
(* history, no entry in generated_files, no write of mode.                 *)
C5_CancelledTurnLeavesSession ==
    \A t \in Live :
        turn[t].outcome = "cancelled" =>
            ~WroteHistory(t) /\ ~WroteFiles(t) /\ ~turn[t].wrote_mode

(* C6: a turn submitted for a session that has a turn in flight is         *)
(* rejected at once, and that step changes neither the session nor the     *)
(* turn in flight.                                                         *)
C6_ConcurrentTurnRejected ==
    [][\A t \in TurnIds :
          (turn[t].pc = "idle" /\ turn'[t].pc # "idle" /\ Busy(turn'[t].sid)) =>
              /\ turn'[t].pc = "ERROR"
              /\ store' = store
              /\ \A u \in TurnIds : InFlight(u) => turn'[u] = turn[u]]_vars

(* C7: clear_session leaves history and generated_files empty and mode     *)
(* unset, keeps the attributes and the session, and clearing the cleared   *)
(* session again changes nothing.                                          *)
C7_ClearResetsAndIsIdempotent ==
    [][\A sid \in SessionIds :
          ClearSession(sid) =>
              /\ store'[sid].exists
              /\ store'[sid].history = <<>>
              /\ store'[sid].generated_files = <<>>
              /\ store'[sid].mode = "unset"
              /\ store'[sid].user_attributes = store[sid].user_attributes
              /\ Cleared(store'[sid]) = store'[sid]
              /\ \A other \in SessionIds \ {sid} : store'[other] = store[other]]_vars

C7_Witness ==
    \E t \in TurnIds :
        /\ turn[t].pc = "DONE"
        /\ turn[t].wrote_mode
        /\ Count(turn[t].stream, {"artifact"}) = 1
        /\ store[turn[t].sid].mode = "unset"
        /\ store[turn[t].sid].history = <<>>
        /\ store[turn[t].sid].generated_files = <<>>
        /\ store[turn[t].sid].user_attributes = "manufacturing"

(* C8: a user_input that holds a keyword is classified mode2 (specialist)  *)
(* whatever the session's history and mode, and no classification request  *)
(* is sent to the model for it.                                            *)
Classified == {"CONSENT", "ROUTED", "GENERATING", "TOOL_PENDING", "FINALIZING"}

C8_KeywordClassifiesSpecialist ==
    \A t \in Live :
        HasKeyword(turn[t].user_input) =>
            /\ turn[t].pc # "CLASSIFY_WAIT"
            /\ turn[t].classify_calls = 0
            /\ turn[t].pc \in Classified => turn[t].mode = "mode2"

C8_Witness ==
    \E t \in TurnIds :
        /\ HasKeyword(turn[t].user_input)
        /\ turn[t].pc = "CONSENT"
        /\ turn[t].mode = "mode2"
        /\ store[turn[t].sid].mode = "mode1"
        /\ Len(store[turn[t].sid].history) > 0

(* C9: when the classification request fails, the turn goes on as a        *)
(* general (mode1) turn: the step that ends the wait for the classifier    *)
(* leads to the consent or the delegation, never to ERROR (unless the      *)
(* turn is cancelled).                                                     *)
C9_ClassifierFailureDefaultsToGeneral ==
    [][\A t \in TurnIds :
          (turn[t].pc = "CLASSIFY_WAIT" /\ turn'[t].pc # "CLASSIFY_WAIT"
             /\ turn'[t].outcome # "cancelled") =>
              /\ turn'[t].pc \in {"CONSENT", "ROUTED"}
              /\ turn'[t].mode \in Modes]_vars

(* C10: session.mode is written only by the step that finalizes a turn     *)
(* (and reset by clear_session): no step of a turn in CLASSIFYING, ROUTED,  *)
(* GENERATING or TOOL_PENDING changes it, and a turn that ends in ERROR    *)
(* has not written it.                                                     *)
C10_ModeWrittenOnlyInFinalizing ==
    [][\A sid \in SessionIds :
          (store[sid].exists /\ store'[sid].mode # store[sid].mode) =>
              \/ store'[sid].mode = "unset"
              \/ \E t \in TurnIds :
                    /\ turn[t].sid = sid
                    /\ turn[t].pc = "FINALIZING"
                    /\ turn'[t].pc = "DONE"]_vars

(* C11: a mode_update event is added to the stream of a turn exactly by    *)
(* the step in which that turn commits session.mode to a value other than  *)
(* the one it had, and a stream never holds more than one mode_update.     *)
C11_ModeUpdateIffModeCommitted ==
    [][\A t \in TurnIds :
          InFlight(t) =>
              /\ Count(turn[t].stream, {"mode_update"}) <= 1
              /\ (Count(turn'[t].stream, {"mode_update"})
                     = Count(turn[t].stream, {"mode_update"}) + 1)
                  <=> /\ turn[t].pc = "CONSENT"
                      /\ store'[turn[t].sid].mode = turn[t].mode
                      /\ store'[turn[t].sid].mode # store[turn[t].sid].mode
              /\ turn'[t].pc \in Running \cup Terminal =>
                     Count(turn'[t].stream, {"mode_update"})
                       >= Count(turn[t].stream, {"mode_update"})]_vars

C11_Witness ==
    \E t \in TurnIds :
        /\ turn[t].pc = "DONE"
        /\ turn[t].wrote_mode
        /\ turn[t].mode = "mode1"
        /\ Count(handled[t], {"mode_update"}) = 1
        /\ store[turn[t].sid].mode = "mode1"
        /\ Len(store[turn[t].sid].history) > 2

(* C12: in a turn that switched its session to mode2 (specialist), every   *)
(* content event stands after the mode_update event, in the stream and in  *)
(* what the client has handled.                                            *)
Before(events, first, second) ==
    \A i \in 1..Len(events) :
        events[i] = second => \E j \in 1..(i - 1) : events[j] = first

C12_ModeUpdateBeforeContent ==
    \A t \in Live :
        (turn[t].wrote_mode /\ turn[t].mode = "mode2") =>
            /\ Before(turn[t].stream, "mode_update", "content")
            /\ Before(handled[t], "mode_update", "content")

C12_Witness ==
    \E t \in TurnIds :
        /\ HasKeyword(turn[t].user_input)
        /\ turn[t].wrote_mode
        /\ turn[t].mode = "mode2"
        /\ store[turn[t].sid].mode = "mode2"
        /\ Count(handled[t], {"mode_update"}) = 1
        /\ Count(handled[t], {"content"}) = 1

(* C13: the dispatch of a tool call whose name is not registered gives a   *)
(* failed result and raises nothing: the step that handles the call        *)
(* appends the tool message to history, adds no file entry and leaves the  *)
(* turn running.                                                           *)
Dispatched(t) ==
    /\ turn[t].pc = "TOOL_PENDING"
    /\ turn'[t] # turn[t]
    /\ turn'[t].outcome # "cancelled"

C13_InvalidCallGivesFailedResult ==
    [][\A t \in TurnIds :
          (Dispatched(t) /\ CurrentCall(t) \notin RegisteredTools) =>
              /\ turn'[t].pc \in Running
              /\ store'[turn[t].sid].generated_files = FilesOf(t)
              /\ store'[turn[t].sid].history
                    = Append(HistoryOf(t), Message(t, "tool"))]_vars

(* C14: a tool body that raises or times out gives a failed result that    *)
(* is appended to history like a successful one: every dispatch of a       *)
(* registered tool leaves the turn running, appends one tool message and   *)
(* emits a tool_use event.                                                 *)
C14_ToolFailureGivesFailedResult ==
    [][\A t \in TurnIds :
          (Dispatched(t) /\ CurrentCall(t) \in RegisteredTools) =>
              /\ turn'[t].pc \in Running
              /\ store'[turn[t].sid].history
                    = Append(HistoryOf(t), Message(t, "tool"))
              /\ Count(turn'[t].stream, {"tool_use"})
                    = Count(turn[t].stream, {"tool_use"}) + 1]_vars

Terminated(t) ==
    /\ turn[t].pc \in Terminal
    /\ Len(turn[t].stream) > 0
    /\ turn[t].stream[Len(turn[t].stream)] \in TerminalEvents

C16_EveryTurnTerminates ==
    \A t \in TurnIds : InFlight(t) ~> Terminated(t)

(* C17: a turn moves only along CLASSIFYING -> ROUTED -> GENERATING ->     *)
(* (TOOL_PENDING -> GENERATING)* -> FINALIZING -> DONE, or into ERROR;     *)
(* FINALIZING is entered from GENERATING only.  The wait for the           *)
(* classifier and the wait for the consent are part of CLASSIFYING.        *)
StateOf(pc) == IF pc \in {"CLASSIFY_WAIT", "CONSENT"} THEN "CLASSIFYING" ELSE pc

Transitions ==
    {<<"CLASSIFYING", "ROUTED">>, <<"ROUTED", "GENERATING">>,
     <<"GENERATING", "TOOL_PENDING">>, <<"TOOL_PENDING", "GENERATING">>,
     <<"GENERATING", "FINALIZING">>, <<"FINALIZING", "DONE">>}

C17_TurnStateMachine ==
    [][\A t \in TurnIds :
          (InFlight(t) /\ StateOf(turn'[t].pc) # StateOf(turn[t].pc)) =>
              \/ turn'[t].pc = "ERROR"
              \/ <<StateOf(turn[t].pc), StateOf(turn'[t].pc)>> \in Transitions]_vars

(* C18: generated_files only grows, except by clear_session, and it grows  *)
(* by one entry for a tool invocation that produced a file: a step that    *)
(* is not a clear keeps the entries it finds and appends at most one       *)
(* entry, which is a file's.                                               *)
C18_ArtifactsAppendOnlyOnePerFile ==
    [][\A sid \in SessionIds :
          LET old == store[sid].generated_files
              new == store'[sid].generated_files
          IN (store[sid].exists /\ new # old) =>
                 \/ ClearSession(sid)
                 \/ /\ Len(new) = Len(old) + 1
                    /\ SubSeq(new, 1, Len(old)) = old
                    /\ new[Len(new)].file]_vars

(* C19 as stated: right after the done event of a turn, every artifact     *)
(* the turn emitted is what get_latest_artifact returns for some request   *)
(* (a type, or none).  Stated for turns during which the session was not   *)
(* cleared, so that every artifact of the turn is still registered.        *)
Finalizes(t) == turn[t].pc = "FINALIZING" /\ turn'[t].pc = "DONE"

Base(t) == Len(FilesOf(t)) - Len(turn[t].tool_calls)

NotClearedSince(t) ==
    /\ Base(t) >= 0
    /\ \A i \in 1..Len(turn[t].tool_calls) :
           FilesOf(t)[Base(t) + i] = [turn |-> t, tool |-> turn[t].tool_calls[i],
                                      file |-> turn[t].tool_calls[i] \in FileTools]

Emitted(t, type) ==
    {i \in 1..Len(turn[t].tool_calls) :
        turn[t].tool_calls[i] \in FileTools
          /\ (type = "any" \/ TypeOf(turn[t].tool_calls[i]) = type)}

C20_ThresholdIsStrict ==
    [][\A t \in TurnIds, confidence \in Confidences :
          ClassifyReturn(t, confidence) =>
              /\ ~HasKeyword(turn[t].user_input)
              /\ turn'[t].classify_calls = 1
              /\ turn'[t].mode = "mode2" <=> confidence > ConfidenceThreshold
              /\ confidence = ConfidenceThreshold => turn'[t].mode = "mode1"]_vars

C20_Witness ==
    \E t \in TurnIds :
        /\ ~HasKeyword(turn[t].user_input)
        /\ turn[t].pc = "CONSENT"
        /\ turn[t].classify_calls = 1
        /\ turn[t].mode = "mode2"
        /\ store[turn[t].sid].mode = "mode1"

C22_OneRequestInFlight ==
    Cardinality({r \in RequestIds : Open(client, r)}) <= 1

(***************************************************************************)
(* C23: a message that carries an inline form is never replaced by the     *)
(* handling of a content, image, pdf, done or error event: a form message  *)
(* of the list is a form message at the same place after every step of     *)
(* handleSend.                                                             *)
(***************************************************************************)
C23_FormMessageNeverReplaced ==
    [][\A i \in 1..Len(client.messages) :
         IsForm(client.messages, i) => IsForm(client'.messages, i)]_vars

(***************************************************************************)
(* The text of the assistant message being streamed by call 1: the message *)
(* at contentMessageIndex once a content event has appended one, the last  *)
(* message before that.                                                    *)
(***************************************************************************)
Shown(c) ==
    LET i == TargetIndex(c, 1)
    IN IF i \in 1..Len(c.messages) THEN c.messages[i].content ELSE "nothing"

Handled(e) ==
    /\ client.calls[1].pc = "reading"
    /\ client' = Render(OnEvent(Received(client, 1, e), 1, e))

(***************************************************************************)
(* C24: content events are cumulative: once a content event is handled and *)
(* rendered the streamed message shows exactly that event's data, and once *)
(* done is handled and rendered it shows the content of done when that is  *)
(* non-empty, the last content data otherwise.                             *)
(***************************************************************************)
C24_ShowsEventText ==
    [][\A e \in ViewEvents :
         /\ e.type = "content" /\ Handled(e) => Shown(client') = e.data
         /\ e.type = "done" /\ e.data # "" /\ Handled(e) =>
              Shown(client') = e.data
         /\ e.type = "done" /\ e.data = "" /\ Handled(e)
              /\ client.calls[1].contentMessageIndex > 0 =>
              Shown(client') = client.currentResponseRef]_vars

(***************************************************************************)
(* C25: within one turn the message list holds at most one assistant       *)
(* message for streamed text, however many content events arrive, also     *)
(* after a form message and whenever React runs the queued updaters.       *)
(***************************************************************************)
StreamedTexts == {e.data : e \in {v \in ViewEvents : v.type \in {"content", "done"}}}

C25_OneStreamedMessage ==
    Cardinality({i \in 1..Len(client.messages) :
                   /\ client.messages[i].role = "assistant"
                   /\ ~client.messages[i].inlineFormType
                   /\ client.messages[i].content \in StreamedTexts}) <= 1

(***************************************************************************)
(* C26: the request of a form that was marked submitted is sent to         *)
(* /api/chat.  The only send of a submission is the one its timer makes:   *)
(* when the timer of a submitted form fires, a call of handleSend issues   *)
(* its request; the submission is not dropped, also when the form was      *)
(* submitted while isLoading was true.                                     *)
(***************************************************************************)
C26_SubmittedFormIsSent ==
    [][Len(client'.timers) < Len(client.timers) =>
         \E r \in RequestIds :
           client.calls[r].pc = "unused" /\ client'.calls[r].pc = "fetching"]_vars

(***************************************************************************)
(* C27: whenever a chat stream is in flight, isLoading is true and         *)
(* abortControllerRef refers to the AbortController of that stream, so     *)
(* that Stop cancels it.                                                   *)
(***************************************************************************)
C27_InFlightIsLoadingAndAbortable ==
    \A r \in RequestIds :
      Open(client, r) => client.isLoading /\ client.abortControllerRef = r

(***************************************************************************)
(* C28: after the done or error event of a request has been handled the    *)
(* client eventually is idle again (isLoading false, status text empty,    *)
(* abortControllerRef null), whatever the stream does after that event.    *)
(***************************************************************************)
Idle ==
    /\ ~client.isLoading
    /\ client.currentStatus = ""
    /\ client.abortControllerRef = 0

C28_TerminalEventLeadsToIdle ==
    \A r \in RequestIds :
      (client.calls[r].pc = "reading" /\ client.calls[r].terminal) ~> Idle

(***************************************************************************)
(* C29: after a successful clear the view agrees with the cleared session: *)
(* the message list holds only the welcome message, and the displayed mode *)
(* and step are unset, as the mode of the session is.                      *)
(***************************************************************************)
ClearSucceeds ==
    /\ client.sessionId \in SessionIds
    /\ client' = Render(HandleClear(client, TRUE))
    /\ store' = [store EXCEPT ![client.sessionId] = Cleared(@)]

C29_ViewAgreesAfterClear ==
    [][ClearSucceeds =>
         /\ client'.messages = <<Welcome>>
         /\ client'.currentStep = "none"
         /\ client'.currentMode = "none"
         /\ store'[client.sessionId].mode = "unset"]_vars

(***************************************************************************)
(* C30: the inline cost form is submitted only with at least one of its    *)
(* ten fields filled, and for every item for which a value was entered,    *)
(* as previous or as current and the value 0 included, the request text    *)
(* has a line for that item with the values entered.                       *)
(***************************************************************************)
Entered(text) == IF text = "" THEN "unentered" ELSE text

C30_EveryEnteredItemHasItsLine ==
    form.submitted =>
      /\ \E k \in FormKeys : form.formData[k] # ""
      /\ \A field \in COST_FIELDS :
           (form.formData[<<field, "previous">>] # ""
              \/ form.formData[<<field, "current">>] # "") =>
             [item |-> field,
              previous |-> Entered(form.formData[<<field, "previous">>]),
              current |-> Entered(form.formData[<<field, "current">>])]
               \in form.costDetails

====
